---- MODULE Spec2Model ----
(***************************************************************************)
(* A model of the 4xidraw server: the GRBL streaming sender of             *)
(* serial_device/xidraw_device.py (XidrawDevice) together with the serial  *)
(* port and the controller behind it, and the G-code time/bounds           *)
(* estimator of lib/gcode_simulator.py (GCodeSimulator).                   *)
(*                                                                         *)
(* Text is modelled as sequences of one-character strings, so that         *)
(* strip/startswith/split/int() are computed as Python computes them.      *)
(***************************************************************************)
EXTENDS Integers, Sequences, FiniteSets, TLC

(***************************************************************************)
(* Bounds of the model.                                                    *)
(***************************************************************************)
\* add_command calls made by the clients
MaxEnq == 2
\* planner-buffer polls made by the sender thread
MaxPolls == 2
\* transactions started by the client thread
MaxMainTxn == 1
\* XidrawDevice.timeout, in seconds (100 in the source), scaled down
timeout == 1
\* lines of a text given to estimate_time
MaxLines == 3

\* ports listed by the operating system
MaxPorts == 2

\* length of the occupancies a controller is given to report
MaxReports == 5

(***************************************************************************)
(* Python string operations on sequences of characters.                    *)
(***************************************************************************)
NL == "\n"

Whitespace == {" ", NL, "\t", "\r"}

Digits == <<"0", "1", "2", "3", "4", "5", "6", "7", "8", "9">>

DigitSet == {Digits[i] : i \in 1..10}

DigitVal(c) == (CHOOSE i \in 1..10 : Digits[i] = c) - 1

\* str.startswith
StartsWith(s, p) == Len(s) >= Len(p) /\ SubSeq(s, 1, Len(p)) = p

\* s[n:]
DropPrefix(s, n) == SubSeq(s, n + 1, Len(s))

RECURSIVE LStripSet(_, _)
LStripSet(s, cs) ==
    IF s # <<>> /\ Head(s) \in cs THEN LStripSet(Tail(s), cs) ELSE s

RECURSIVE RStripSet(_, _)
RStripSet(s, cs) ==
    IF s # <<>> /\ s[Len(s)] \in cs THEN RStripSet(SubSeq(s, 1, Len(s) - 1), cs) ELSE s

\* str.strip(chars)
StripSet(s, cs) == RStripSet(LStripSet(s, cs), cs)

\* str.strip()
Strip(s) == StripSet(s, Whitespace)

\* str.split(sep) for a one-character separator: the list of the fields
RECURSIVE SplitAcc(_, _, _)
SplitAcc(s, sep, cur) ==
    IF s = <<>> THEN <<cur>>
    ELSE IF Head(s) = sep THEN <<cur>> \o SplitAcc(Tail(s), sep, <<>>)
    ELSE SplitAcc(Tail(s), sep, Append(cur, Head(s)))

Split(s, sep) == SplitAcc(s, sep, <<>>)

\* sep.join(list)
RECURSIVE Join(_, _)
Join(list, sep) ==
    IF list = <<>> THEN <<>>
    ELSE IF Len(list) = 1 THEN list[1]
    ELSE list[1] \o <<sep>> \o Join(Tail(list), sep)

RECURSIVE DigitsVal(_, _)
DigitsVal(s, acc) ==
    IF s = <<>> THEN acc ELSE DigitsVal(Tail(s), 10 * acc + DigitVal(Head(s)))

\* int(s): [ok |-> TRUE, v |-> n], or [ok |-> FALSE, v |-> 0] for ValueError
ParseInt(s) ==
    LET t == Strip(s)
        neg == t # <<>> /\ Head(t) = "-"
        u == IF t # <<>> /\ Head(t) \in {"-", "+"} THEN Tail(t) ELSE t
    IN  IF u # <<>> /\ \A i \in 1..Len(u) : u[i] \in DigitSet
        THEN [ok |-> TRUE, v |-> IF neg THEN 0 - DigitsVal(u, 0) ELSE DigitsVal(u, 0)]
        ELSE [ok |-> FALSE, v |-> 0]

\* str(n) for an integer n >= 0
RECURSIVE IntToStr(_)
IntToStr(n) ==
    IF n < 10 THEN <<Digits[n + 1]>>
    ELSE IntToStr(n \div 10) \o <<Digits[(n % 10) + 1]>>

\* n & 0b100 and n | 0b100 on non-negative integers
Bit2(n) == (n \div 4) % 2

\* a mask with bit 2 and no other bit
OnlyBit2(n) == 4

OrBit2(n) == IF Bit2(n) = 1 THEN n ELSE n + 4

(***************************************************************************)
(* Texts of the serial protocol.                                           *)
(***************************************************************************)
S_OK == <<"o", "k">>

S_SETTINGS_QUERY == <<"$", "$", NL>>

status_command == <<"?">>

S_MASK_PREFIX == <<"$", "1", "0", "=">>

S_BUF_PREFIX == <<"B", "u", "f", ":">>

S_M3 == <<"M", "3">>

S_EOL == <<"\r", NL>>

\* "M3 S90\n" and "G1 X5\n": the lines the clients enqueue
LineM3 == <<"M", "3", " ", "S", "9", "0", NL>>

LineG1 == <<"G", "1", " ", "X", "5", NL>>

EnqLines == {LineM3, LineG1}

GRBL_BUFFER_NICE_SIZE == 16

GRBL_BUFFER_NICE_SIZE_BLOCKING == 2

\* range(self.timeout * 5): the reads of one transaction
ReadBudget == timeout * 5

(***************************************************************************)
(* The controller (GRBL 0.9) behind the port.                              *)
(***************************************************************************)
\* the $10 report masks the controller may start with
InitMasks == {3, 7}

\* planner-buffer occupancies the controller may report
OccValues == {0, 2, 16, 17}

\* "<Idle,MPos:0,0[,Buf:n]>": Buf is reported when asked for and bit 2 of $10 is set
StatusLine(mask, n, withBuf) ==
    <<"<", "I", "d", "l", "e", ",", "M", "P", "o", "s", ":", "0", ",", "0">>
    \o (IF withBuf /\ Bit2(mask) = 1 THEN <<",">> \o S_BUF_PREFIX \o IntToStr(n) ELSE <<>>)
    \o <<">">>

\* "$10=<mask> (m)", one line of the answer to "$$"
MaskLine(mask) == S_MASK_PREFIX \o IntToStr(mask) \o <<" ", "(", "m", ")">>

\* "$0=10 (p)", another line of the answer to "$$"
OtherSettingLine == <<"$", "0", "=", "1", "0", " ", "(", "p", ")">>

ErrorLine == <<"e", "r", "r", "o", "r", ":", "2", "0">>

(***************************************************************************)
(* State of the device, the port, the controller and the threads.          *)
(***************************************************************************)
VARIABLES
    running,                    \* XidrawDevice.running (set by start())
    command_queue,              \* XidrawDevice.command_queue: the queued lines
    unfinished_tasks,           \* queue.Queue's count of items not yet task_done()
    serial_lock,                \* XidrawDevice.serial_lock: "free" or its holder
    port_in,                    \* lines sent by the controller, not yet read
    ctl_in,                     \* lines written to the port, not yet answered
    ctl_mask,                   \* the controller's $10 setting
    next_id,                    \* number of the next write on the port
    wpc,                        \* where the sender thread is
    mpc,                        \* where the client thread is
    pipe_on,                    \* a thread runs pipe_to()
    tx,                         \* per thread: its command()/query() call
    main_ret,                   \* client thread: what its last command()/query() returned
    command,                    \* sender thread: the dequeued line
    planning_buffer_occupancy,  \* sender thread: the occupancy last observed (-1: none)
    polls_for_cmd,              \* sender thread: polls made since the last dequeue
    npolls,                     \* polls made by the sender thread
    nmain,                      \* transactions started by the client thread
    proc,                       \* the embedding process: "alive" or "exited"
    enq,                        \* history: the lines passed to add_command
    sent,                       \* history: the enqueued lines written by the sender
    worker_cmds,                \* history: the lines the sender passed to command()
    init_mask,                  \* history: the controller's $10 at start
    gcode,                      \* estimate_time: the text it is given
    line_index,                 \* estimate_time: i, the index of the current line
    position,                   \* estimate_time: position
    velocity,                   \* estimate_time: velocity
    total_time,                 \* estimate_time: total_time
    bounds,                     \* estimate_time: bounds
    est_pc,                     \* estimate_time: "idle", "loop", "returned" or the
                                \* exception that ended it
    motion_args,                \* _calculate_motion_time: its arguments
    motion_ret,                 \* _calculate_motion_time: what it returned
    comports,                   \* the ports the operating system lists
    xidraw_ports,               \* find_4xidraw_port: the devices of the candidates
    candidate,                  \* find_4xidraw_port: index of the candidate probed
    ser,                        \* open_4xidraw_port: "unbound", "open" or "closed"
    nreads,                     \* readline() calls made on the candidate
    nwrites,                    \* soft-reset bytes written to the candidate
    open_ports,                 \* the devices that are open
    printed,                    \* the summary lines printed: device and reason
    find_pc,                    \* position in find_4xidraw_port
    find_ret,                   \* what find_4xidraw_port returned or raised
    occupancies                 \* the occupancies the controller reports to the sender's
                                \* polls, in order; <<>> when it may report any

dvars == <<running, command_queue, unfinished_tasks, serial_lock, port_in, ctl_in,
           ctl_mask, next_id, wpc, mpc, pipe_on, tx, main_ret, command,
           planning_buffer_occupancy, polls_for_cmd, npolls, nmain, proc, enq, sent,
           worker_cmds, init_mask>>

evars == <<gcode, line_index, position, velocity, total_time, bounds, est_pc>>

svars == <<motion_args, motion_ret>>

Threads == {"worker", "main"}

NoTx == [phase |-> "none", kind |-> "none", cmd |-> <<>>, reads |-> 0,
         message |-> <<>>, id |-> 0]

\* a call of command() or query(), about to take the serial lock
Call(kind, cmd) == [phase |-> "lock", kind |-> kind, cmd |-> cmd, reads |-> 0,
                    message |-> <<>>, id |-> 0]

NoRet == [kind |-> "none", outcome |-> "unset", value |-> <<>>]

DevInit ==
    /\ running = FALSE
    /\ command_queue = <<>>
    /\ unfinished_tasks = 0
    /\ serial_lock = "free"
    /\ port_in = <<>>
    /\ ctl_in = <<>>
    /\ ctl_mask \in InitMasks
    /\ next_id = 1
    /\ wpc = "none"
    /\ mpc = "idle"
    /\ pipe_on = FALSE
    /\ tx = [t \in Threads |-> NoTx]
    /\ main_ret = NoRet
    /\ command = <<>>
    /\ planning_buffer_occupancy = -1
    /\ polls_for_cmd = 0
    /\ npolls = 0
    /\ nmain = 0
    /\ proc = "alive"
    /\ enq = <<>>
    /\ sent = <<>>
    /\ worker_cmds = <<>>
    /\ init_mask = ctl_mask

(***************************************************************************)
(* Pure parts of XidrawDevice.                                             *)
(***************************************************************************)
\* a nice size that is the same for every line
nice_size_ignores_m3(cmd) == GRBL_BUFFER_NICE_SIZE

\* a nice size below every occupancy
nice_size_never_reached(cmd) == -1

\* buffer_nice_size_for_command
buffer_nice_size_for_command(cmd) ==
    IF StartsWith(Strip(cmd), S_M3)
    THEN GRBL_BUFFER_NICE_SIZE_BLOCKING
    ELSE GRBL_BUFFER_NICE_SIZE

\* command_queue.get(block=False): the oldest line, and the queue without it
QueueGetNewest(q) == [item |-> q[Len(q)], rest |-> SubSeq(q, 1, Len(q) - 1)]

QueueGet(q) == [item |-> Head(q), rest |-> Tail(q)]

\* _ensure_buffer_report_enabled, after its query: what it does with the answer
RECURSIVE EnsureScanAlwaysSets(_)
EnsureScanAlwaysSets(lines) ==
    IF lines = <<>> THEN [act |-> "raise", mask |-> 0]
    ELSE IF StartsWith(Head(lines), S_MASK_PREFIX)
    THEN LET report_mask == ParseInt(Split(DropPrefix(Head(lines), 4), " ")[1])
         IN  IF ~report_mask.ok THEN [act |-> "raise", mask |-> 0]
             ELSE [act |-> "command", mask |-> OrBit2(report_mask.v)]
    ELSE EnsureScanAlwaysSets(Tail(lines))

RECURSIVE EnsureScan(_)
EnsureScan(lines) ==
    IF lines = <<>> THEN [act |-> "raise", mask |-> 0]
    ELSE IF StartsWith(Head(lines), S_MASK_PREFIX)
    THEN LET report_mask == ParseInt(Split(DropPrefix(Head(lines), 4), " ")[1])
         IN  IF ~report_mask.ok THEN [act |-> "raise", mask |-> 0]
             ELSE IF Bit2(report_mask.v) = 0
             THEN [act |-> "command", mask |-> OrBit2(report_mask.v)]
             ELSE [act |-> "return", mask |-> report_mask.v]
    ELSE EnsureScan(Tail(lines))

\* planning_buffer_occupancy, after its query: the integer after 'Buf:', or an exception
RECURSIVE BufScan(_)
BufScan(chunks) ==
    IF chunks = <<>> THEN [ok |-> FALSE, v |-> 0]
    ELSE IF StartsWith(Head(chunks), S_BUF_PREFIX)
    THEN ParseInt(DropPrefix(Head(chunks), 4))
    ELSE BufScan(Tail(chunks))

OccupancyOf(message) == BufScan(Split(StripSet(message, {"<", ">"}), ","))

(***************************************************************************)
(* The controller and the port.                                            *)
(***************************************************************************)
\* the occupancy a controller with a given course reports: the one of the
\* sender's latest poll, the first one before the sender has polled
ScriptedOccupancy == occupancies[IF npolls = 0 THEN 1 ELSE npolls]

\* the answers the controller may give to one written line, each a list of lines
Responses(cmd) ==
    IF cmd = S_SETTINGS_QUERY
    THEN {<<OtherSettingLine, MaskLine(ctl_mask), S_OK>>, <<OtherSettingLine, S_OK>>}
    ELSE IF cmd = status_command \o <<NL>>
    THEN IF occupancies = <<>>
         THEN {<<StatusLine(ctl_mask, n, b), S_OK>> : n \in OccValues, b \in BOOLEAN}
         ELSE {<<StatusLine(ctl_mask, ScriptedOccupancy, b), S_OK>> : b \in BOOLEAN}
    ELSE IF StartsWith(cmd, S_MASK_PREFIX)
    THEN {<<S_OK>>}
    ELSE {<<S_OK>>, <<ErrorLine>>}

\* the controller's $10 after it has executed cmd
MaskAfter(cmd) ==
    IF StartsWith(cmd, S_MASK_PREFIX) /\ ParseInt(DropPrefix(cmd, 4)).ok
    THEN ParseInt(DropPrefix(cmd, 4)).v
    ELSE ctl_mask

\* the controller answers the oldest unanswered line
CtlRespond ==
    /\ proc = "alive"
    /\ ctl_in # <<>>
    /\ \E resp \in Responses(Head(ctl_in).cmd) :
          port_in' = port_in \o
              [i \in 1..Len(resp) |-> [line |-> resp[i] \o S_EOL, for |-> Head(ctl_in).id]]
    /\ ctl_mask' = MaskAfter(Head(ctl_in).cmd)
    /\ ctl_in' = Tail(ctl_in)
    /\ UNCHANGED <<running, command_queue, unfinished_tasks, serial_lock, next_id, wpc,
                   mpc, pipe_on, tx, main_ret, command, planning_buffer_occupancy,
                   polls_for_cmd, npolls, nmain, proc, enq, sent, worker_cmds, init_mask>>

\* the thread whose command()/query() has written and has not ended yet
Outstanding ==
    IF serial_lock # "free" /\ tx[serial_lock].phase = "read" THEN serial_lock ELSE "none"

\* port.readline(): the next line of the controller, or nothing after the read timeout
ReadLine == IF port_in = <<>> THEN [line |-> <<>>, for |-> 0] ELSE Head(port_in)

AfterReadLine == IF port_in = <<>> THEN <<>> ELSE Tail(port_in)

(***************************************************************************)
(* command() and query(): take the lock and write; then read.              *)
(***************************************************************************)
TxnWrite(t) ==
    /\ proc = "alive"
    /\ tx[t].phase = "lock"
    /\ serial_lock = "free"
    /\ serial_lock' = t
    /\ ctl_in' = Append(ctl_in, [cmd |-> tx[t].cmd, id |-> next_id])
    /\ next_id' = next_id + 1
    /\ tx' = [tx EXCEPT ![t].phase = "read", ![t].id = next_id]
    /\ sent' = IF t = "worker" /\ wpc = "send" THEN Append(sent, tx[t].cmd) ELSE sent
    /\ UNCHANGED <<running, command_queue, unfinished_tasks, port_in, ctl_mask, wpc, mpc,
                   pipe_on, main_ret, command, planning_buffer_occupancy,
                   polls_for_cmd, npolls, nmain, proc, enq, worker_cmds,
                   init_mask>>

\* how a call ends: 'ok' read (query returns the joined lines), or the reads are used up
\* (command() calls sys.exit(); query() falls out of its loop and returns None)
CallResult(call, isok, message, n) ==
    [kind |-> call.kind,
     outcome |-> IF isok THEN "ok" ELSE IF call.kind = "command" THEN "exit" ELSE "none",
     value |-> IF isok /\ call.kind = "query" THEN Join(message, NL) ELSE <<>>]

\* the sender thread after its call has ended with r:
\* _ensure_buffer_report_enabled, the gate of _grbl_sender_loop, task_done()
WorkerNext(r) ==
    LET dead == [pc |-> "dead", tx |-> NoTx, occ |-> planning_buffer_occupancy,
                 done |-> 0, called |-> <<>>]
    IN
    IF r.outcome # "ok" THEN dead
    ELSE IF wpc = "ensure_q"
    THEN LET e == EnsureScan(Split(r.value, NL))
             c == S_MASK_PREFIX \o IntToStr(e.mask) \o <<NL>>
         IN  IF e.act = "raise" THEN dead
             ELSE IF e.act = "command"
             THEN [dead EXCEPT !.pc = "ensure_cmd", !.tx = Call("command", c),
                               !.called = <<c>>]
             ELSE [dead EXCEPT !.pc = "loop"]
    ELSE IF wpc = "ensure_cmd"
    THEN [dead EXCEPT !.pc = "loop"]
    ELSE IF wpc = "poll"
    THEN LET o == OccupancyOf(r.value)
         IN  IF ~o.ok THEN dead
             ELSE IF o.v <= buffer_nice_size_for_command(command)
             THEN [dead EXCEPT !.pc = "send", !.tx = Call("command", command),
                               !.occ = o.v, !.called = <<command>>]
             ELSE [dead EXCEPT !.pc = "gate", !.occ = o.v]
    ELSE [dead EXCEPT !.pc = "loop", !.done = 1]

\* the client thread after its call has ended with r
MainNext(r) ==
    LET idle == [pc |-> "idle", tx |-> NoTx, proc |-> "alive"]
    IN
    IF r.outcome = "exit" THEN [idle EXCEPT !.proc = "exited"]
    ELSE IF mpc = "wfpb" /\ r.outcome = "ok"
    THEN LET o == OccupancyOf(r.value)
         IN  IF o.ok /\ o.v > 0 THEN [idle EXCEPT !.pc = "wfpb_sleep"] ELSE idle
    ELSE idle

\* one readline() of the call's loop, and what follows when the call ends with it.
\* A readline() that finds no line waits out its read timeout; the loop's budget is
\* far larger than any answer, so the reads that time out are taken together: the
\* controller has stalled and the rest of the budget runs out in one step.
TxnRead(t) ==
    /\ proc = "alive"
    /\ tx[t].phase = "read"
    /\ LET chunk == Strip(ReadLine.line)
           quiet == port_in = <<>>
           n == IF quiet THEN ReadBudget ELSE tx[t].reads + 1
           isok == chunk = S_OK
           message == IF tx[t].kind = "query" /\ ~isok
                      THEN Append(tx[t].message, chunk)
                      ELSE tx[t].message
           r == CallResult(tx[t], isok, message, n)
       IN  /\ port_in' = AfterReadLine
           /\ IF isok \/ n = ReadBudget
              THEN /\ serial_lock' = "free"
                   /\ IF t = "worker"
                      THEN /\ wpc' = WorkerNext(r).pc
                           /\ tx' = [tx EXCEPT ![t] = WorkerNext(r).tx]
                           /\ planning_buffer_occupancy' = WorkerNext(r).occ
                           /\ unfinished_tasks' = unfinished_tasks - WorkerNext(r).done
                           /\ worker_cmds' = worker_cmds \o WorkerNext(r).called
                           /\ UNCHANGED <<mpc, proc, main_ret>>
                      ELSE /\ mpc' = MainNext(r).pc
                           /\ tx' = [tx EXCEPT ![t] = MainNext(r).tx]
                           /\ proc' = MainNext(r).proc
                           /\ main_ret' = IF mpc = "wfpb" THEN main_ret ELSE r
                           /\ UNCHANGED <<wpc, planning_buffer_occupancy,
                                          unfinished_tasks, worker_cmds>>
              ELSE /\ tx' = [tx EXCEPT ![t].reads = n, ![t].message = message]
                   /\ UNCHANGED <<serial_lock, main_ret, wpc, mpc, proc,
                                  planning_buffer_occupancy, unfinished_tasks,
                                  worker_cmds>>
    /\ UNCHANGED <<running, command_queue, ctl_in, ctl_mask, next_id, pipe_on, command, polls_for_cmd, npolls, nmain, enq, sent, init_mask>>

(***************************************************************************)
(* _grbl_sender_loop.                                                      *)
(***************************************************************************)
\* while self.running
SenderLoopCheck ==
    /\ proc = "alive"
    /\ wpc = "loop"
    /\ wpc' = IF running THEN "loop_q" ELSE "done"
    /\ UNCHANGED <<running, command_queue, unfinished_tasks, serial_lock, port_in, ctl_in,
                   ctl_mask, next_id, mpc, pipe_on, tx, main_ret, command,
                   planning_buffer_occupancy, polls_for_cmd, npolls, nmain, proc, enq,
                   sent, worker_cmds, init_mask>>

\* command_queue.empty(): sleep and go round; or get() and the line's nice size
SenderDequeue ==
    /\ proc = "alive"
    /\ wpc = "loop_q"
    /\ IF command_queue = <<>>
       THEN /\ wpc' = "loop"
            /\ UNCHANGED <<command_queue, command, polls_for_cmd>>
       ELSE /\ wpc' = "gate"
            /\ command' = QueueGet(command_queue).item
            /\ command_queue' = QueueGet(command_queue).rest
            /\ polls_for_cmd' = 0
    /\ UNCHANGED <<running, unfinished_tasks, serial_lock, port_in, ctl_in, ctl_mask,
                   next_id, mpc, pipe_on, tx, main_ret, planning_buffer_occupancy,
                   npolls, nmain, proc, enq, sent, worker_cmds,
                   init_mask>>

\* polls the sender thread may make
PollLimit == IF occupancies = <<>> THEN MaxPolls ELSE Len(occupancies)

\* the inner "while self.running": poll the planner buffer, or leave the loop and
\* call command(command)
SenderGate ==
    /\ proc = "alive"
    /\ wpc = "gate"
    /\ IF running
       THEN /\ npolls < PollLimit
            /\ wpc' = "poll"
            /\ tx' = [tx EXCEPT !["worker"] = Call("query", status_command \o <<NL>>)]
            /\ npolls' = npolls + 1
            /\ polls_for_cmd' = polls_for_cmd + 1
            /\ UNCHANGED worker_cmds
       ELSE /\ wpc' = "send"
            /\ tx' = [tx EXCEPT !["worker"] = Call("command", command)]
            /\ worker_cmds' = Append(worker_cmds, command)
            /\ UNCHANGED <<npolls, polls_for_cmd>>
    /\ UNCHANGED <<running, command_queue, unfinished_tasks, serial_lock, port_in, ctl_in,
                   ctl_mask, next_id, mpc, pipe_on, main_ret, command,
                   planning_buffer_occupancy, nmain, proc, enq, sent, init_mask>>

(***************************************************************************)
(* The operations the clients call.                                        *)
(***************************************************************************)
\* add_command
AddCommand ==
    /\ proc = "alive"
    /\ Len(enq) < MaxEnq
    /\ \E l \in EnqLines :
          /\ command_queue' = Append(command_queue, l)
          /\ enq' = Append(enq, l)
    /\ unfinished_tasks' = unfinished_tasks + 1
    /\ UNCHANGED <<running, serial_lock, port_in, ctl_in, ctl_mask, next_id, wpc, mpc,
                   pipe_on, tx, main_ret, command, planning_buffer_occupancy,
                   polls_for_cmd, npolls, nmain, proc, sent, worker_cmds, init_mask>>

\* a start() whose sender thread goes straight to its loop
StartWithoutPrelude ==
    /\ proc = "alive"
    /\ mpc = "idle"
    /\ wpc = "none"
    /\ running' = TRUE
    /\ wpc' = "loop"
    /\ UNCHANGED <<command_queue, unfinished_tasks, serial_lock, port_in, ctl_in, ctl_mask,
                   next_id, mpc, pipe_on, tx, main_ret, command, planning_buffer_occupancy,
                   polls_for_cmd, npolls, nmain, proc, enq, sent, worker_cmds, init_mask>>

\* start(): the sender thread begins with _ensure_buffer_report_enabled's query
Start ==
    /\ proc = "alive"
    /\ mpc = "idle"
    /\ wpc = "none"
    /\ running' = TRUE
    /\ wpc' = "ensure_q"
    /\ tx' = [tx EXCEPT !["worker"] = Call("query", S_SETTINGS_QUERY)]
    /\ UNCHANGED <<command_queue, unfinished_tasks, serial_lock, port_in, ctl_in, ctl_mask,
                   next_id, mpc, pipe_on, main_ret, command, planning_buffer_occupancy,
                   polls_for_cmd, npolls, nmain, proc, enq, sent, worker_cmds, init_mask>>

\* stop_and_join(): clear running, then join the sender thread
StopAndJoin ==
    /\ proc = "alive"
    /\ mpc = "idle"
    /\ wpc # "none"
    /\ running
    /\ running' = FALSE
    /\ mpc' = "join"
    /\ UNCHANGED <<command_queue, unfinished_tasks, serial_lock, port_in, ctl_in, ctl_mask,
                   next_id, wpc, pipe_on, tx, main_ret, command,
                   planning_buffer_occupancy, polls_for_cmd, npolls, nmain, proc, enq,
                   sent, worker_cmds, init_mask>>

\* sender_thread.join() returns
JoinReturn ==
    /\ proc = "alive"
    /\ mpc = "join"
    /\ wpc \in {"done", "dead"}
    /\ mpc' = "idle"
    /\ UNCHANGED <<running, command_queue, unfinished_tasks, serial_lock, port_in, ctl_in,
                   ctl_mask, next_id, wpc, pipe_on, tx, main_ret, command,
                   planning_buffer_occupancy, polls_for_cmd, npolls, nmain, proc, enq,
                   sent, worker_cmds, init_mask>>

\* wait_for_empty_queue(): command_queue.join() is entered, and returns
WaitForEmptyQueue ==
    /\ proc = "alive"
    /\ \/ mpc = "idle" /\ mpc' = "wfq"
       \/ mpc = "wfq" /\ unfinished_tasks = 0 /\ mpc' = "idle"
    /\ UNCHANGED <<running, command_queue, unfinished_tasks, serial_lock, port_in, ctl_in,
                   ctl_mask, next_id, wpc, pipe_on, tx, main_ret, command,
                   planning_buffer_occupancy, polls_for_cmd, npolls, nmain, proc, enq,
                   sent, worker_cmds, init_mask>>

\* calls the client thread may make
MainLimit == IF occupancies = <<>> THEN MaxMainTxn ELSE MaxPolls

\* the client thread starts a call
MainCall(pc, call) ==
    /\ proc = "alive"
    /\ nmain < MainLimit
    /\ mpc' = pc
    /\ tx' = [tx EXCEPT !["main"] = call]
    /\ nmain' = nmain + 1
    /\ UNCHANGED <<running, command_queue, unfinished_tasks, serial_lock, port_in, ctl_in,
                   ctl_mask, next_id, wpc, pipe_on, main_ret, command,
                   planning_buffer_occupancy, polls_for_cmd, npolls, proc, enq, sent,
                   worker_cmds, init_mask>>

\* wait_for_empty_planner_buffer(): its next planning_buffer_occupancy()
WaitForEmptyPlannerBuffer ==
    /\ mpc \in {"idle", "wfpb_sleep"}
    /\ MainCall("wfpb", Call("query", status_command \o <<NL>>))

\* command(line) called by the client itself
MainCommand ==
    /\ mpc = "idle"
    /\ \E l \in EnqLines : MainCall("cmd", Call("command", l))

\* query(line) called by the client itself
MainQuery ==
    /\ mpc = "idle"
    /\ MainCall("qry", Call("query", S_SETTINGS_QUERY))

\* pipe_to() is started on a thread of its own (before the sender: a pipe started
\* later is one that has not read yet)
PipeStart ==
    /\ proc = "alive"
    /\ ~pipe_on
    /\ wpc = "none"
    /\ nmain = 0
    /\ pipe_on' = TRUE
    /\ UNCHANGED <<running, command_queue, unfinished_tasks, serial_lock, port_in, ctl_in,
                   ctl_mask, next_id, wpc, mpc, tx, main_ret, command,
                   planning_buffer_occupancy, polls_for_cmd, npolls, nmain, proc, enq,
                   sent, worker_cmds, init_mask>>

\* pipe_to(): one readline() that returns a line (the file it is copied to is not
\* part of the model)
PipeRead ==
    /\ proc = "alive"
    /\ pipe_on
    /\ port_in # <<>>
    /\ port_in' = Tail(port_in)
    /\ UNCHANGED <<running, command_queue, unfinished_tasks, serial_lock, ctl_in, ctl_mask,
                   next_id, wpc, mpc, pipe_on, tx, main_ret, command,
                   planning_buffer_occupancy, polls_for_cmd, npolls, nmain, proc, enq,
                   sent, worker_cmds, init_mask>>

(***************************************************************************)
(* The estimator of lib/gcode_simulator.py.                                *)
(*                                                                         *)
(* Its floats are fixed-point integers:                                    *)
(*   coordinates and vectors    1/100 mm                                   *)
(*   unit vectors, sines        1/10000                                    *)
(*   feeds and velocities       1/1000 mm/min                              *)
(*   accelerations              1/10 mm/s^2                                *)
(*   times                      1/100000 s                                 *)
(* and, inside the trapezoidal solver, velocities in 1/100000 mm/s and     *)
(* distances in 1/10000 mm.                                                *)
(***************************************************************************)
abs(n) == IF n < 0 THEN 0 - n ELSE n

min(m, n) == IF m <= n THEN m ELSE n

max(m, n) == IF m >= n THEN m ELSE n

\* math.sqrt, rounded down
RECURSIVE SqrtSearch(_, _, _)
SqrtSearch(n, lo, hi) ==
    IF hi - lo <= 1 THEN lo
    ELSE LET mid == (lo + hi) \div 2
         IN  IF mid * mid <= n THEN SqrtSearch(n, mid, hi) ELSE SqrtSearch(n, lo, mid)

ISqrt(n) == SqrtSearch(n, 0, 46341)

\* m * n over d, for 0 <= m < d: quotient and remainder, by doubling, so that
\* no intermediate value leaves the 32-bit integers
RECURSIVE MulMod(_, _, _)
MulMod(m, n, d) ==
    IF n = 0 THEN [q |-> 0, r |-> 0]
    ELSE LET h == MulMod(m, n \div 2, d)
             e == IF 2 * h.r >= d THEN [q |-> 2 * h.q + 1, r |-> 2 * h.r - d]
                                  ELSE [q |-> 2 * h.q, r |-> 2 * h.r]
         IN  IF n % 2 = 0 THEN e
             ELSE IF e.r + m >= d THEN [q |-> e.q + 1, r |-> e.r + m - d]
                  ELSE [q |-> e.q, r |-> e.r + m]

\* m * n / d for m, n >= 0 and d > 0, rounded down
MulDiv(m, n, d) == (m \div d) * n + MulMod(m % d, n, d).q

\* m * n / d for n >= 0 and d > 0, rounded towards zero
SMulDiv(m, n, d) == IF m >= 0 THEN MulDiv(m, n, d) ELSE 0 - MulDiv(0 - m, n, d)

\* float('inf')
inf == 1000000000

\* GrblSettings
max_rate_x == 3000

max_rate_y == 3000

max_accel_x == 800

max_accel_y == 800

\* 0.01 mm
junction_deviation == 1

\* Point
Point(x, y) == [x |-> x, y |-> y]

PointSub(p, o) == Point(p.x - o.x, p.y - o.y)

length(p) == ISqrt(p.x * p.x + p.y * p.y)

\* normalize(): the unit vector, defined when length(p) # 0 (ZeroDivisionError otherwise)
normalize(p) == Point((p.x * 10000) \div length(p), (p.y * 10000) \div length(p))

dot_product(p, o) == p.x * o.x + p.y * o.y

PointAbs(p) == Point(abs(p.x), abs(p.y))

\* Bounds that start at the origin instead of at nothing
BoundsAtOrigin == [min_x |-> 0, max_x |-> 0, min_y |-> 0, max_y |-> 0]

\* Bounds
Bounds == [min_x |-> inf, max_x |-> 0 - inf, min_y |-> inf, max_y |-> 0 - inf]

\* an update that only ever raises the maxima
update_max_only(b, point) ==
    [min_x |-> b.min_x, max_x |-> max(b.max_x, point.x),
     min_y |-> b.min_y, max_y |-> max(b.max_y, point.y)]

update(b, point) ==
    [min_x |-> min(b.min_x, point.x), max_x |-> max(b.max_x, point.x),
     min_y |-> min(b.min_y, point.y), max_y |-> max(b.max_y, point.y)]

width(b) == b.max_x - b.min_x

height(b) == b.max_y - b.min_y

\* str.upper
LowerCase == <<"a", "b", "c", "d", "e", "f", "g", "h", "i", "j", "k", "l", "m",
               "n", "o", "p", "q", "r", "s", "t", "u", "v", "w", "x", "y", "z">>

UpperCase == <<"A", "B", "C", "D", "E", "F", "G", "H", "I", "J", "K", "L", "M",
               "N", "O", "P", "Q", "R", "S", "T", "U", "V", "W", "X", "Y", "Z">>

UpperChar(c) ==
    IF \E k \in 1..26 : LowerCase[k] = c
    THEN UpperCase[CHOOSE k \in 1..26 : LowerCase[k] = c]
    ELSE c

Upper(s) == [k \in 1..Len(s) |-> UpperChar(s[k])]

\* sub in s
Contains(s, sub) ==
    \E k \in 1..(Len(s) - Len(sub) + 1) : SubSeq(s, k, k + Len(sub) - 1) = sub

S_G0 == <<"G", "0", " ">>

S_G1 == <<"G", "1", " ">>

S_G00 == <<"G", "0", "0", " ">>

S_G01 == <<"G", "0", "1", " ">>

S_G4 == <<"G", "4">>

is_motion_command(line) ==
    \/ StartsWith(line, S_G0)
    \/ StartsWith(line, S_G1)
    \/ StartsWith(line, S_G00)
    \/ StartsWith(line, S_G01)

is_rapid_motion_command(line) == StartsWith(line, S_G0) \/ StartsWith(line, S_G00)

\* the characters of the class [-\d.]
NumChars == DigitSet \cup {"-", "."}

RECURSIVE TakeWhile(_, _)
TakeWhile(s, cs) ==
    IF s # <<>> /\ Head(s) \in cs THEN <<Head(s)>> \o TakeWhile(Tail(s), cs) ELSE <<>>

\* re.search(letter + r'([-\d.]+)', s): the group of the first match
WordStarts(s, letter) == {k \in 1..(Len(s) - 1) : s[k] = letter /\ s[k + 1] \in NumChars}

Word(s, letter) ==
    IF WordStarts(s, letter) = {} THEN [found |-> FALSE, text |-> <<>>]
    ELSE LET k == CHOOSE j \in WordStarts(s, letter) :
                      \A l \in WordStarts(s, letter) : j <= l
         IN  [found |-> TRUE, text |-> TakeWhile(SubSeq(s, k + 1, Len(s)), NumChars)]

\* float(t) in thousandths: [ok |-> TRUE, v |-> n], or ok = FALSE for ValueError
Float(t) ==
    LET neg == t # <<>> /\ Head(t) = "-"
        body == IF neg THEN Tail(t) ELSE t
        ip == TakeWhile(body, DigitSet)
        rest == SubSeq(body, Len(ip) + 1, Len(body))
        dot == rest # <<>> /\ Head(rest) = "."
        fp == IF dot THEN Tail(rest) ELSE <<>>
        valid == /\ dot \/ rest = <<>>
                 /\ \A k \in 1..Len(fp) : fp[k] \in DigitSet
                 /\ Len(ip) + Len(fp) > 0
        fp3 == SubSeq(fp \o <<"0", "0", "0">>, 1, 3)
        mag == DigitsVal(ip, 0) * 1000 + DigitsVal(fp3, 0)
    IN  IF valid THEN [ok |-> TRUE, v |-> IF neg THEN 0 - mag ELSE mag]
        ELSE [ok |-> FALSE, v |-> 0]

\* float() of a word of the line when the word is there, dflt otherwise
WordValue(s, letter, dflt) ==
    IF Word(s, letter).found THEN Float(Word(s, letter).text) ELSE [ok |-> TRUE, v |-> dflt]

\* _parse_coord: [ok, pos, feed]; ok = FALSE when float() raises ValueError
parse_coord(line, current_pos, current_feed) ==
    LET xw == WordValue(line, "X", current_pos.x * 10)
        yw == WordValue(line, "Y", current_pos.y * 10)
        fw == WordValue(line, "F", current_feed)
    IN  [ok |-> xw.ok /\ yw.ok /\ fw.ok,
         pos |-> Point(xw.v \div 10, yw.v \div 10),
         feed |-> fw.v]

\* a dwell whose P word is in milliseconds
parse_dwell_p_in_ms(line) ==
    IF Word(line, "P").found
    THEN [ok |-> Float(Word(line, "P").text).ok,
          v |-> Float(Word(line, "P").text).v \div 10]
    ELSE IF Word(line, "S").found
    THEN [ok |-> Float(Word(line, "S").text).ok, v |-> Float(Word(line, "S").text).v * 100]
    ELSE [ok |-> TRUE, v |-> 0]

\* _parse_dwell: [ok, v], v in 1/100000 s
parse_dwell(line) ==
    IF Word(line, "P").found
    THEN [ok |-> Float(Word(line, "P").text).ok, v |-> Float(Word(line, "P").text).v * 100]
    ELSE IF Word(line, "S").found
    THEN [ok |-> Float(Word(line, "S").text).ok, v |-> Float(Word(line, "S").text).v * 100]
    ELSE [ok |-> TRUE, v |-> 0]

\* the lines the texts given to estimate_time are made of
\* 'G0 X100 Y0'
G_RAPID == <<"G", "0", " ", "X", "1", "0", "0", " ", "Y", "0">>

\* 'G1 X10 F1200'
G_X10 == <<"G", "1", " ", "X", "1", "0", " ", "F", "1", "2", "0", "0">>

\* 'G1 X20 F1200'
G_X20 == <<"G", "1", " ", "X", "2", "0", " ", "F", "1", "2", "0", "0">>

\* 'G1 X0 F1200'
G_X0 == <<"G", "1", " ", "X", "0", " ", "F", "1", "2", "0", "0">>

\* 'G1 X-5 Y3 F600'
G_DIAG == <<"G", "1", " ", "X", "-", "5", " ", "Y", "3", " ", "F", "6", "0", "0">>

\* 'G1 Y10'
G_Y10 == <<"G", "1", " ", "Y", "1", "0">>

\* 'M3 S90'
G_M3 == <<"M", "3", " ", "S", "9", "0">>

\* 'G4 P0.5'
G_DWELL == <<"G", "4", " ", "P", "0", ".", "5">>

\* 'G4 S2'
G_DWELL_S == <<"G", "4", " ", "S", "2">>

\* '; home'
G_COMMENT == <<";", " ", "h", "o", "m", "e">>

\* ''
G_BLANK == <<>>

\* 'G1 X0 Y0'
G_ORIGIN == <<"G", "1", " ", "X", "0", " ", "Y", "0">>

\* 'G1 X1.2 Y0.5 F3000': from the origin 1.3 mm, too short to reach 3000 mm/min
G_SHORT == <<"G", "1", " ", "X", "1", ".", "2", " ", "Y", "0", ".", "5", " ", "F", "3", "0", "0", "0">>

\* 'G1 X6 Y2.5 F3000': in the direction of G_SHORT
G_ON == <<"G", "1", " ", "X", "6", " ", "Y", "2", ".", "5", " ", "F", "3", "0", "0", "0">>

GcodeLineSet ==
    {G_RAPID, G_X10, G_X20, G_X0, G_DIAG, G_SHORT, G_ON, G_Y10, G_M3, G_DWELL, G_DWELL_S,
     G_COMMENT, G_BLANK, G_ORIGIN}

\* the value of calculate_junction_vmax for two motions in exactly the same direction,
\* when the rounding of the unit vectors leaves the angle just above 0: 24898 and more
NearZeroAngleVmax == 1000000000

JunctionValue(v) == [raised |-> "none", v |-> v]

JunctionRaise(e) == [raised |-> e, v |-> 0]

\* a junction at which the machine always stops
junction_always_stops(motion1, motion2) == {JunctionValue(0)}

\* 1000 * sqrt(num / den), at the finest scale that stays within 32 bits
ScaledSqrt(num, den) ==
    IF num \div den < 2147 THEN ISqrt(MulDiv(num, 1000000, den))
    ELSE IF num \div den < 214748 THEN 10 * ISqrt(MulDiv(num, 10000, den))
    ELSE IF num \div den < 21474836 THEN 100 * ISqrt(MulDiv(num, 100, den))
    ELSE 1000 * ISqrt(num \div den)

\* cos(theta) above which sin(theta / 2) is taken from the cross product
SmallAngleCos == 99000000

\* sqrt(max_centripetal_acceleration * junction_deviation / sin(theta / 2)) for
\* a small angle that is not 0.0, in 1/1000 mm/s: 1 - cos(theta) is below the
\* resolution of the unit vectors, so sin(theta / 2) is computed as
\* sin(theta) / (2 * cos(theta / 2)), with sin(theta) the cross product of the
\* motions over their lengths
SmallAngleVmax(motion1, motion2) ==
    LET cos_theta == dot_product(normalize(motion1), normalize(motion2))
        cos_half == ISqrt((100000000 + min(cos_theta, 100000000)) \div 2)
        cross == abs(motion1.x * motion2.y - motion1.y * motion2.x)
        max_centripetal_acceleration == min(max_accel_x, max_accel_y)
        num == MulDiv(MulDiv(2 * max_centripetal_acceleration * junction_deviation
                               * length(motion1), length(motion2), 100),
                      cos_half, 10000)
    IN  ScaledSqrt(num, cross)

\* calculate_junction_vmax: the possible outcomes, v in 1/1000 mm/s.
\* sin(theta / 2) is computed from the dot product of the unit vectors by the
\* half-angle formula.  For two motions along the same axis and in the same
\* direction the unit vectors are exact, theta is 0.0 and the division by
\* sin(0.0) raises; in the same direction but off the axes the rounding of the
\* unit vectors decides between a dot product of 1.0 (ZeroDivisionError), above
\* 1.0 (ValueError of math.acos) and just below 1.0 (a very large value).  In
\* opposite directions off the axes it decides between a dot product below -1.0
\* (ValueError of math.acos) and a full reversal.
calculate_junction_vmax(motion1, motion2) ==
    IF length(motion1) = 0 \/ length(motion2) = 0 THEN {JunctionValue(0)}
    ELSE IF /\ motion1.x * motion2.y - motion1.y * motion2.x = 0
            /\ dot_product(motion1, motion2) > 0
    THEN IF motion1.x = 0 \/ motion1.y = 0
         THEN {JunctionRaise("ZeroDivisionError")}
         ELSE {JunctionRaise("ZeroDivisionError"), JunctionRaise("ValueError"),
               JunctionValue(NearZeroAngleVmax)}
    ELSE LET cos_theta == dot_product(normalize(motion1), normalize(motion2))
             sin_half == ISqrt((100000000 - cos_theta) \div 2)
             max_centripetal_acceleration == min(max_accel_x, max_accel_y)
             vmax == ISqrt(MulDiv(max_centripetal_acceleration
                                    * junction_deviation * 10000,
                                  10000, sin_half))
         IN  IF cos_theta > SmallAngleCos
             THEN {JunctionValue(SmallAngleVmax(motion1, motion2))}
             ELSE IF /\ motion1.x * motion2.y - motion1.y * motion2.x = 0
                     /\ motion1.x # 0 /\ motion1.y # 0
             THEN {JunctionRaise("ValueError"), JunctionValue(vmax)}
             ELSE {JunctionValue(vmax)}

\* max_speed_along_motion, in 1/1000 mm/min (motion of length # 0)
max_speed_along_motion(motion) ==
    LET abs_motion_dir == PointAbs(normalize(motion))
        m == max(abs_motion_dir.x, abs_motion_dir.y)
    IN  100 * length(Point((max_rate_x * 10 * abs_motion_dir.x) \div m,
                           (max_rate_y * 10 * abs_motion_dir.y) \div m))

\* max_accel_along_motion, in 1/10 mm/s^2 (motion of length # 0)
max_accel_along_motion(motion) ==
    LET abs_motion_dir == PointAbs(normalize(motion))
        m == max(abs_motion_dir.x, abs_motion_dir.y)
    IN  length(Point((max_accel_x * 10 * abs_motion_dir.x) \div m,
                     (max_accel_y * 10 * abs_motion_dir.y) \div m))

\* (v1^2 - v0^2) / (2 * max_accel): velocities in 1/100000 mm/s, max_accel in
\* 1/10 mm/s^2, the distance in 1/10000 mm
SpeedChangeDistance(v0, v1, max_accel) ==
    IF v1 >= v0 THEN MulDiv(v1 - v0, v1 + v0, 100000) \div (2 * max_accel)
    ELSE 0 - (MulDiv(v0 - v1, v1 + v0, 100000) \div (2 * max_accel))

\* (v1 - v0) / max_accel, in 1/100000 s
SpeedChangeTime(v0, v1, max_accel) == ((v1 - v0) * 10) \div max_accel

\* _calculate_motion_time: [raised, t, v], t in 1/100000 s and v in 1/1000 mm/min.
\* distance in 1/10000 mm, velocities in 1/1000 mm/min, max_accel in 1/10 mm/s^2.
\* x / 60.0 * 60.0 is x to the last place: the end velocity is returned as given.
\* After the peak velocity is recomputed, accel_distance + decel_distance is the
\* distance by construction (up to rounding, far below 1e-6) unless the peak was
\* cut down to max_velocity.
calculate_motion_time(distance, start_velocity, end_velocity, max_velocity, max_accel) ==
    LET vs == (start_velocity * 5) \div 3
        ve == (end_velocity * 5) \div 3
        vm == (max_velocity * 5) \div 3
        accel_distance == SpeedChangeDistance(vs, vm, max_accel)
        decel_distance == SpeedChangeDistance(ve, vm, max_accel)
        \* Case 1
        cruise_distance == distance - (accel_distance + decel_distance)
        cruise_time == MulDiv(cruise_distance, 1000000, vm)
        \* Case 2: the squares of the velocities in 1/1000 mm/s, a sixteenth of
        \* them, to stay within the integers
        peak_velocity_squared ==
            MulDiv(vs \div 100, vs \div 100, 32) + MulDiv(ve \div 100, ve \div 100, 32)
                + MulDiv(5 * max_accel, distance, 8)
        peak_velocity0 == IF peak_velocity_squared < 0 THEN 0
                          ELSE 400 * ISqrt(peak_velocity_squared)
        cut == peak_velocity0 > vm
        peak_velocity == IF cut THEN vm ELSE peak_velocity0
        \* Cases 3 and 4
        slower == 400 * ISqrt(max(0, MulDiv(vs \div 100, vs \div 100, 16)
                                        - MulDiv(5 * max_accel, distance, 4)))
        faster == 400 * ISqrt(max(0, MulDiv(vs \div 100, vs \div 100, 16)
                                        + MulDiv(5 * max_accel, distance, 4)))
    IN  IF accel_distance + decel_distance <= distance
        THEN [raised |-> "none",
              t |-> SpeedChangeTime(vs, vm, max_accel) + cruise_time
                        + SpeedChangeTime(ve, vm, max_accel),
              v |-> end_velocity]
        ELSE IF ~cut
        THEN [raised |-> "none",
              t |-> SpeedChangeTime(vs, peak_velocity, max_accel)
                        + SpeedChangeTime(ve, peak_velocity, max_accel),
              v |-> end_velocity]
        ELSE IF vs > ve
        THEN [raised |-> "none", t |-> SpeedChangeTime(slower, vs, max_accel),
              v |-> (slower * 3) \div 5]
        ELSE IF vs < ve
        THEN [raised |-> "none", t |-> SpeedChangeTime(vs, faster, max_accel),
              v |-> (faster * 3) \div 5]
        ELSE [raised |-> "ValueError", t |-> 0, v |-> 0]

\* An outcome of one motion line of estimate_time (lines 273-306).
\* raised: the exception that ends estimate_time, or "none"; updated: whether
\* bounds.update(target_pos) was reached.
MotionRaise(e, upd, target_pos, vel) ==
    [raised |-> e, updated |-> upd, target_pos |-> target_pos,
     real_end_velocity |-> vel, motion_time |-> 0]

\* next_pos, _ = self._parse_coord(next_line, ...) if next_line is a motion line
LookAhead(next_line, target) ==
    IF next_line # <<>> /\ is_motion_command(next_line)
    THEN parse_coord(next_line, target.pos, target.feed)
    ELSE [ok |-> TRUE, pos |-> target.pos, feed |-> 0]

\* lines 285-288
TargetFeed(line, feed, max_target_feed) ==
    IF is_rapid_motion_command(line) \/ feed <= 0 THEN max_target_feed
    ELSE min(feed, max_target_feed)

\* a segment after which the velocity of its start is carried on
MotionDoneCarriesStart(target_pos, vel, end_velocity, r) ==
    IF r.raised # "none" THEN MotionRaise(r.raised, TRUE, target_pos, vel)
    ELSE [raised |-> "none", updated |-> TRUE, target_pos |-> target_pos,
          real_end_velocity |-> vel, motion_time |-> r.t]

\* lines 296-306, r being what _calculate_motion_time returned
MotionDone(target_pos, vel, end_velocity, r) ==
    IF r.raised # "none" THEN MotionRaise(r.raised, TRUE, target_pos, vel)
    ELSE [raised |-> "none", updated |-> TRUE, target_pos |-> target_pos,
          real_end_velocity |-> IF r.v - end_velocity < 0 THEN end_velocity ELSE r.v,
          motion_time |-> r.t]

\* lines 291-306, junction being an outcome of calculate_junction_vmax
MotionPlanned(target_pos, vel, distance, target_feed, max_target_accel, junction) ==
    IF junction.raised # "none" THEN MotionRaise(junction.raised, TRUE, target_pos, vel)
    ELSE CHOOSE o \in {MotionDone(target_pos, vel, min(target_feed, junction.v), r) :
                          r \in {calculate_motion_time(distance, vel,
                                                       min(target_feed, junction.v),
                                                       target_feed, max_target_accel)}} :
             TRUE

\* One motion line of estimate_time (lines 273-306): the possible outcomes, target
\* and nxt being what _parse_coord returned for the line and for the next line
MotionOutcomes(line, pos, vel, target, nxt) ==
    IF ~target.ok \/ ~nxt.ok THEN {MotionRaise("ValueError", FALSE, target.pos, vel)}
    ELSE IF length(PointSub(target.pos, pos)) = 0
    THEN {MotionRaise("ZeroDivisionError", TRUE, target.pos, vel)}
    ELSE {MotionPlanned(target.pos, vel, length(PointSub(target.pos, pos)) * 100,
                        target_feed, max_target_accel, junction) :
             target_feed \in {TargetFeed(line, target.feed,
                                         max_speed_along_motion(PointSub(target.pos, pos)))},
             max_target_accel \in {max_accel_along_motion(PointSub(target.pos, pos))},
             junction \in calculate_junction_vmax(PointSub(target.pos, pos),
                                                  PointSub(nxt.pos, target.pos))}

(***************************************************************************)
(* estimate_time: one step for each line of the text.                      *)
(***************************************************************************)
\* lines = gcode.strip().split('\n')
GcodeLines == Split(Strip(gcode), NL)

\* line = lines[i].strip().upper()
CurLine == Upper(Strip(GcodeLines[line_index + 1]))

\* next_line: None and '' both count as no line
NextLine ==
    IF line_index + 2 <= Len(GcodeLines) THEN Upper(Strip(GcodeLines[line_index + 2]))
    ELSE <<>>

InLoop == est_pc = "loop" /\ line_index < Len(GcodeLines)

IsComment(line) ==
    line = <<>> \/ StartsWith(line, <<";">>) \/ StartsWith(line, <<"(">>)

\* a blank or comment line: continue
EstimateSkip ==
    /\ InLoop
    /\ IsComment(CurLine)
    /\ line_index' = line_index + 1
    /\ UNCHANGED <<gcode, position, velocity, total_time, bounds, est_pc>>

\* a motion line
EstimateMotion ==
    /\ InLoop
    /\ ~IsComment(CurLine)
    /\ is_motion_command(CurLine)
    /\ \E target \in {parse_coord(CurLine, position, velocity)} :
       \E nxt \in {LookAhead(NextLine, target)} :
       \E o \in MotionOutcomes(CurLine, position, velocity, target, nxt) :
          /\ bounds' = IF o.updated THEN update(bounds, o.target_pos) ELSE bounds
          /\ IF o.raised # "none"
             THEN /\ est_pc' = o.raised
                  /\ UNCHANGED <<line_index, position, velocity, total_time>>
             ELSE /\ velocity' = o.real_end_velocity
                  /\ position' = o.target_pos
                  /\ total_time' = total_time + o.motion_time
                  /\ line_index' = line_index + 1
                  /\ est_pc' = est_pc
    /\ UNCHANGED gcode

\* a dwell line
EstimateDwell ==
    /\ InLoop
    /\ ~IsComment(CurLine)
    /\ ~is_motion_command(CurLine)
    /\ Contains(CurLine, S_G4)
    /\ IF parse_dwell(CurLine).ok
       THEN /\ total_time' = total_time + parse_dwell(CurLine).v
            /\ line_index' = line_index + 1
            /\ est_pc' = est_pc
       ELSE /\ est_pc' = "ValueError"
            /\ UNCHANGED <<line_index, total_time>>
    /\ UNCHANGED <<gcode, position, velocity, bounds>>

\* an 'M3' line, or any other line: nothing
EstimateOther ==
    /\ InLoop
    /\ ~IsComment(CurLine)
    /\ ~is_motion_command(CurLine)
    /\ ~Contains(CurLine, S_G4)
    /\ line_index' = line_index + 1
    /\ UNCHANGED <<gcode, position, velocity, total_time, bounds, est_pc>>

\* return total_time, bounds
EstimateReturn ==
    /\ est_pc = "loop"
    /\ line_index = Len(GcodeLines)
    /\ est_pc' = "returned"
    /\ UNCHANGED <<gcode, line_index, position, velocity, total_time, bounds>>

(***************************************************************************)
(* xidraw_finder.py: the probe of the serial ports for a Grbl controller.  *)
(***************************************************************************)
\* range(15): the reads of one window (lines 19 and 29)
ProbeReads == 15

LowerChar(c) ==
    IF \E k \in 1..26 : UpperCase[k] = c
    THEN LowerCase[CHOOSE k \in 1..26 : UpperCase[k] = c]
    ELSE c

\* str.lower()
Lower(s) == [k \in 1..Len(s) |-> LowerChar(s[k])]

S_usb == <<"u", "s", "b">>

S_arduino == <<"a", "r", "d", "u", "i", "n", "o">>

S_ttyUSB == <<"t", "t", "y", "U", "S", "B">>

\* a ListPortInfo
Port(description, device) == [description |-> description, device |-> device]

\* is_compatible_device(port)
is_compatible_device(port) ==
    LET description == Lower(port.description)
        device == Lower(port.device)
    IN  \/ Contains(description, S_usb)
        \/ Contains(description, S_arduino)
        \/ Contains(device, S_arduino)
        \/ Contains(device, S_ttyUSB)

\* the descriptions and device paths the operating system reports
PortDescriptions == {<<"n", "/", "a">>,
                     <<"U", "S", "B", " ", "S", "e", "r", "i", "a", "l">>,
                     <<"A", "r", "d", "u", "i", "n", "o", " ", "U", "n", "o">>}

PortDevices == {<<"/", "d", "e", "v", "/", "t", "t", "y", "U", "S", "B", "0">>,
                <<"/", "d", "e", "v", "/", "t", "t", "y", "S", "0">>,
                <<"/", "d", "e", "v", "/", "c", "u", ".", "a", "r", "d", "u", "i", "n", "o", "1">>}

PortInfos == {Port(description, device) : description \in PortDescriptions, device \in PortDevices}

\* serial.tools.list_ports.comports(): up to MaxPorts ports with distinct devices
ComportsLists ==
    {l \in UNION {[1..k -> PortInfos] : k \in 0..MaxPorts} :
        \A i, j \in 1..Len(l) : l[i].device = l[j].device => i = j}

fvars == <<comports, xidraw_ports, candidate, ser, nreads, nwrites, open_ports, printed,
           find_pc, find_ret>>

\* find_4xidraw_port is not called
FinderIdle ==
    /\ comports = <<>>
    /\ xidraw_ports = <<>>
    /\ candidate = 0
    /\ ser = "unbound"
    /\ nreads = 0
    /\ nwrites = 0
    /\ open_ports = {}
    /\ printed = <<>>
    /\ find_pc = "idle"
    /\ find_ret = "unset"

\* find_4xidraw_port() is called
FinderInit ==
    /\ comports \in ComportsLists
    /\ xidraw_ports = <<>>
    /\ candidate = 0
    /\ ser = "unbound"
    /\ nreads = 0
    /\ nwrites = 0
    /\ open_ports = {}
    /\ printed = <<>>
    /\ find_pc = "call"
    /\ find_ret = "unset"

\* the candidates: the devices of the compatible ports (lines 57-61)
CompatibleDevices(ports) ==
    LET compatible == SelectSeq(ports, is_compatible_device)
    IN  [k \in 1..Len(compatible) |-> compatible[k].device]

\* for port in xidraw_ports: the next candidate, or the summary after the last
LoopHead(ports, k) == IF k <= Len(ports) THEN "open" ELSE "list"

\* lines 57-63
FindCandidates ==
    /\ find_pc = "call"
    /\ xidraw_ports' = CompatibleDevices(comports)
    /\ candidate' = 1
    /\ find_pc' = LoopHead(CompatibleDevices(comports), 1)
    /\ UNCHANGED <<comports, ser, nreads, nwrites, open_ports, printed, find_ret>>

\* an exception leaves find_4xidraw_port
FindRaises(exception) ==
    /\ find_pc' = "raised"
    /\ find_ret' = exception

\* lines 35-39 with ser bound, then lines 63-65: the port is closed, None is
\* returned and the loop goes on with the next candidate
CloseAndMoveOn ==
    /\ ser' = "closed"
    /\ open_ports' = open_ports \ {xidraw_ports[candidate]}
    /\ candidate' = candidate + 1
    /\ find_pc' = LoopHead(xidraw_ports, candidate + 1)
    /\ UNCHANGED <<comports, xidraw_ports, printed, find_ret>>

\* lines 11-17: serial.Serial(...) opens the port, or raises; when it raises,
\* ser was never assigned and ser.close() at line 38 raises UnboundLocalError
OpenPort ==
    /\ find_pc = "open"
    /\ \/ /\ ser' = "open"
          /\ open_ports' = open_ports \cup {xidraw_ports[candidate]}
          /\ nreads' = 0
          /\ nwrites' = 0
          /\ find_pc' = "window1"
          /\ UNCHANGED <<comports, xidraw_ports, candidate, printed, find_ret>>
       \/ /\ ser' = "unbound"
          /\ FindRaises("UnboundLocalError")
          /\ UNCHANGED <<comports, xidraw_ports, candidate, nreads, nwrites, open_ports, printed>>

\* what ser.readline().decode().strip() gives: a line beginning with 'Grbl ',
\* another line, nothing before the timeout, bytes that are not UTF-8, or a
\* serial error
ReadOutcomes == {"banner", "other", "timeout", "undecodable", "SerialException"}

\* a probe that resets after its first read without banner
AfterReadsResetsAtOnce(n) ==
    IF n = 1 THEN "reset"
    ELSE IF n = 2 * ProbeReads THEN "close"
    ELSE find_pc

\* where the probe stands after n reads without banner
AfterReads(n) ==
    IF n = ProbeReads THEN "reset"
    ELSE IF n = 2 * ProbeReads THEN "close"
    ELSE find_pc

\* one pass of the loops at lines 19-23 and 29-33
ProbeRead ==
    /\ find_pc \in {"window1", "window2"}
    /\ \E r \in ReadOutcomes :
        \/ /\ r = "banner"
           /\ find_pc' = "returned"
           /\ find_ret' = "XidrawDevice"
           /\ nreads' = nreads + 1
           /\ UNCHANGED <<comports, xidraw_ports, candidate, ser, nwrites, open_ports, printed>>
        \/ /\ r \in {"other", "timeout"}
           /\ nreads' = nreads + 1
           /\ find_pc' = AfterReads(nreads + 1)
           /\ UNCHANGED <<comports, xidraw_ports, candidate, ser, nwrites, open_ports, printed,
                          find_ret>>
        \/ /\ r = "undecodable"
           /\ FindRaises("UnicodeDecodeError")
           /\ nreads' = nreads + 1
           /\ UNCHANGED <<comports, xidraw_ports, candidate, ser, nwrites, open_ports, printed>>
        \/ /\ r = "SerialException"
           /\ nreads' = nreads + 1
           /\ CloseAndMoveOn
           /\ UNCHANGED nwrites

\* lines 26-27: ser.write(b'\x18')
SoftReset ==
    /\ find_pc = "reset"
    /\ \/ /\ nwrites' = nwrites + 1
          /\ find_pc' = "window2"
          /\ UNCHANGED <<comports, xidraw_ports, candidate, ser, nreads, open_ports, printed,
                         find_ret>>
       \/ /\ CloseAndMoveOn
          /\ UNCHANGED <<nreads, nwrites>>

\* lines 38-39 after the second window
ProbeGiveUp ==
    /\ find_pc = "close"
    /\ CloseAndMoveOn
    /\ UNCHANGED <<nreads, nwrites>>

S_invalid_response == <<"i", "n", "v", "a", "l", "i", "d", " ", "r", "e", "s", "p", "o", "n", "s", "e">>

S_not_a_match == <<"n", "o", "t", " ", "a", " ", "m", "a", "t", "c", "h">>

\* p in xidraw_ports for a ListPortInfo p and a list of device strings: the
\* elements are compared with ListPortInfo.__eq__, which is false for a string
PortInCandidates(p) == FALSE

\* line 71
Reason(p) == IF PortInCandidates(p) THEN S_invalid_response ELSE S_not_a_match

\* lines 68-74: the summary; ListPortInfo.__eq__ of pyserial before 3.5 reads
\* other.device and raises AttributeError for a string
ListPorts ==
    /\ find_pc = "list"
    /\ \/ /\ printed' = [k \in 1..Len(comports) |->
                            [device |-> comports[k].device, reason |-> Reason(comports[k])]]
          /\ find_pc' = "returned"
          /\ find_ret' = "None"
       \/ /\ comports # <<>>
          /\ xidraw_ports # <<>>
          /\ printed' = <<>>
          /\ FindRaises("AttributeError")
    /\ UNCHANGED <<comports, xidraw_ports, candidate, ser, nreads, nwrites, open_ports>>

(***************************************************************************)
(* The programs: the sender with its clients, the estimator, the           *)
(* trapezoidal solver called on its own, and the port finder.              *)
(***************************************************************************)
vars == <<dvars, evars, svars, fvars, occupancies>>

\* no estimate is being made
EstIdle ==
    /\ gcode = <<>>
    /\ line_index = 0
    /\ position = Point(0, 0)
    /\ velocity = 0
    /\ total_time = 0
    /\ bounds = Bounds
    /\ est_pc = "idle"

\* a device that is not started
DevIdle == DevInit /\ init_mask = 7

NoMotionArgs ==
    [distance |-> 0, start_velocity |-> 0, end_velocity |-> 0, max_velocity |-> 0,
     max_accel |-> 0]

NoMotionRet == [raised |-> "unset", t |-> 0, v |-> 0]

\* _calculate_motion_time is not called on its own
SolverIdle == motion_args = NoMotionArgs /\ motion_ret = NoMotionRet

\* the variables each program leaves alone
\* the controller reports any occupancy
AnyOccupancy == occupancies = <<>>

not_device == <<evars, svars, fvars, occupancies>>

not_estimator == <<dvars, svars, fvars, occupancies>>

not_solver == <<dvars, evars, fvars, occupancies>>

not_finder == <<dvars, evars, svars, occupancies>>

Init == DevInit /\ EstIdle /\ SolverIdle /\ FinderIdle /\ AnyOccupancy

Next ==
    \/ CtlRespond /\ UNCHANGED not_device
    \/ (\E t \in Threads : TxnWrite(t)) /\ UNCHANGED not_device
    \/ (\E t \in Threads : TxnRead(t)) /\ UNCHANGED not_device
    \/ SenderLoopCheck /\ UNCHANGED not_device
    \/ SenderDequeue /\ UNCHANGED not_device
    \/ SenderGate /\ UNCHANGED not_device
    \/ AddCommand /\ UNCHANGED not_device
    \/ Start /\ UNCHANGED not_device
    \/ StopAndJoin /\ UNCHANGED not_device
    \/ JoinReturn /\ UNCHANGED not_device
    \/ WaitForEmptyQueue /\ UNCHANGED not_device
    \/ WaitForEmptyPlannerBuffer /\ UNCHANGED not_device
    \/ MainCommand /\ UNCHANGED not_device
    \/ MainQuery /\ UNCHANGED not_device
    \/ PipeStart /\ UNCHANGED not_device
    \/ PipeRead /\ UNCHANGED not_device

Spec == Init /\ [][Next]_vars

\* the texts given to estimate_time: up to MaxLines lines, joined by '\n'
GcodeTexts ==
    {Join(ls, NL) : ls \in UNION {[1..k -> GcodeLineSet] : k \in 0..MaxLines}}

\* estimate_time(gcode) is called (lines 256-262)
EstInit ==
    /\ gcode \in GcodeTexts
    /\ line_index = 0
    /\ position = Point(0, 0)
    /\ velocity = 0
    /\ total_time = 0
    /\ bounds = Bounds
    /\ est_pc = "loop"

InitEst == DevIdle /\ EstInit /\ SolverIdle /\ FinderIdle /\ AnyOccupancy

NextEst ==
    \/ EstimateSkip /\ UNCHANGED not_estimator
    \/ EstimateMotion /\ UNCHANGED not_estimator
    \/ EstimateDwell /\ UNCHANGED not_estimator
    \/ EstimateOther /\ UNCHANGED not_estimator
    \/ EstimateReturn /\ UNCHANGED not_estimator

SpecEst == InitEst /\ [][NextEst]_vars

\* the arguments given to _calculate_motion_time: velocities in 1/1000 mm/min
\* (0, 600, 1200 and 3000 mm/min), distances in 1/10000 mm (0, 0.1, 1, 10 and
\* 100 mm), accelerations in 1/10 mm/s^2 (800 and 1131.4 mm/s^2)
SolverVelocities == {0, 600000, 1200000, 3000000}

SolverDistances == {0, 1000, 10000, 100000, 1000000}

SolverAccels == {8000, 11314}

\* _calculate_motion_time is called with an end velocity within the cap
SolverInit ==
    /\ motion_args \in [distance : SolverDistances, start_velocity : SolverVelocities,
                         end_velocity : SolverVelocities,
                         max_velocity : SolverVelocities \ {0}, max_accel : SolverAccels]
    /\ motion_args.end_velocity <= motion_args.max_velocity
    /\ motion_ret = NoMotionRet

\* _calculate_motion_time returns or raises
CalculateMotionTime ==
    /\ motion_ret = NoMotionRet
    /\ motion_ret' = calculate_motion_time(motion_args.distance, motion_args.start_velocity,
                                           motion_args.end_velocity,
                                           motion_args.max_velocity, motion_args.max_accel)
    /\ UNCHANGED motion_args

InitSolver == DevIdle /\ EstIdle /\ SolverInit /\ FinderIdle /\ AnyOccupancy

NextSolver == CalculateMotionTime /\ UNCHANGED not_solver

SpecSolver == InitSolver /\ [][NextSolver]_vars

InitFinder == DevIdle /\ EstIdle /\ SolverIdle /\ FinderInit /\ AnyOccupancy

NextFinder ==
    \/ FindCandidates /\ UNCHANGED not_finder
    \/ OpenPort /\ UNCHANGED not_finder
    \/ ProbeRead /\ UNCHANGED not_finder
    \/ SoftReset /\ UNCHANGED not_finder
    \/ ProbeGiveUp /\ UNCHANGED not_finder
    \/ ListPorts /\ UNCHANGED not_finder

SpecFinder == InitFinder /\ [][NextFinder]_vars

\* the occupancies a controller may be given to report
ReportedOccupancies == {1, 3, 10, 18}

\* a started dispatcher that is not stopped, in front of a controller whose
\* planner buffer reports a given course of occupancies
InitGate ==
    /\ DevInit
    /\ occupancies \in [1..MaxReports -> ReportedOccupancies]
    /\ EstIdle /\ SolverIdle /\ FinderIdle

NextGate ==
    \/ CtlRespond /\ UNCHANGED not_device
    \/ TxnWrite("worker") /\ UNCHANGED not_device
    \/ TxnRead("worker") /\ UNCHANGED not_device
    \/ SenderLoopCheck /\ UNCHANGED not_device
    \/ SenderDequeue /\ UNCHANGED not_device
    \/ SenderGate /\ UNCHANGED not_device
    \/ AddCommand /\ UNCHANGED not_device
    \/ Start /\ UNCHANGED not_device

SpecGate == InitGate /\ [][NextGate]_vars

(***************************************************************************)
(* The dispatcher under fair scheduling: started and never stopped, in     *)
(* front of a controller that answers every line in time and with 'ok',    *)
(* while a client polls through wait_for_empty_planner_buffer or waits in  *)
(* wait_for_empty_queue.                                                   *)
(***************************************************************************)
\* occupancies above the nice size of an 'M3' and above the nice size of any line
BusyOccupancies == {3, 18}

\* the courses of occupancies that fall to the nice size of every line and stay
\* there, once for each line that may wait
DrainingCourses ==
    {busy \o [i \in 1..MaxEnq |-> IF i = MaxEnq THEN 0 ELSE 1] :
        busy \in UNION {[1..k -> BusyOccupancies] : k \in 0..(MaxReports - MaxEnq)}}

InitLive ==
    /\ DevInit
    /\ occupancies \in DrainingCourses
    /\ EstIdle /\ SolverIdle /\ FinderIdle

\* the answer just given ends with 'ok', lists $10 among the settings and
\* reports the occupancy when bit 2 of $10 is set
AnswersOk ==
    LET cmd == Head(ctl_in).cmd
        answer == SubSeq(port_in', Len(port_in) + 1, Len(port_in'))
    IN  /\ Strip(answer[Len(answer)].line) = S_OK
        /\ cmd = S_SETTINGS_QUERY => Len(answer) = 3
        /\ cmd = status_command \o <<NL>> =>
                answer[1].line = StatusLine(ctl_mask, ScriptedOccupancy, TRUE) \o S_EOL

CtlRespondOk == CtlRespond /\ AnswersOk /\ UNCHANGED not_device

\* a readline() that returns a line: the answer arrives before the read timeout
TxnReadInTime(t) == port_in # <<>> /\ TxnRead(t) /\ UNCHANGED not_device

\* the readline() of the call of thread t takes a line from the port: the step
\* of TxnReadInTime(t), told by what it does to the port
ReadLineReturns(t) ==
    /\ proc = "alive"
    /\ tx[t].phase = "read"
    /\ port_in # <<>>
    /\ port_in' = Tail(port_in)

\* command() or query() takes the serial lock and writes
TxnTakesLock(t) == TxnWrite(t) /\ UNCHANGED not_device

\* a step of _grbl_sender_loop outside command() and query()
SenderStep == (SenderLoopCheck \/ SenderDequeue \/ SenderGate) /\ UNCHANGED not_device

\* command_queue.join() returns
WaitForEmptyQueueReturns == mpc = "wfq" /\ WaitForEmptyQueue /\ UNCHANGED not_device

NextLive ==
    \/ CtlRespondOk
    \/ \E t \in Threads : TxnTakesLock(t)
    \/ \E t \in Threads : TxnReadInTime(t)
    \/ SenderStep
    \/ AddCommand /\ UNCHANGED not_device
    \/ Start /\ UNCHANGED not_device
    \/ WaitForEmptyQueue /\ UNCHANGED not_device
    \/ WaitForEmptyPlannerBuffer /\ UNCHANGED not_device

\* the controller answers; every thread that can run does; the sender, which
\* blocks on the serial lock while the polling client sleeps between two
\* polls, gets the lock
LiveFairness ==
    /\ WF_vars(CtlRespondOk)
    /\ WF_vars(SenderStep)
    /\ SF_vars(TxnTakesLock("worker"))
    /\ \A t \in Threads : WF_port_in(ReadLineReturns(t))
    /\ WF_vars(WaitForEmptyQueueReturns)

SpecLive == InitLive /\ [][NextLive]_vars /\ LiveFairness

(***************************************************************************)
(* Properties of the sender.                                               *)
(***************************************************************************)
IsPrefix(a, b) == Len(a) <= Len(b) /\ a = SubSeq(b, 1, Len(a))

\* the sender's command() calls for enqueued lines, and those of its prelude
GcodeCalls == SelectSeq(worker_cmds, LAMBDA c : ~StartsWith(c, S_MASK_PREFIX))

PreludeCalls == SelectSeq(worker_cmds, LAMBDA c : StartsWith(c, S_MASK_PREFIX))

\* command_queue.join() is about to return to the caller of wait_for_empty_queue
JoinReturns == mpc = "wfq" /\ unfinished_tasks = 0

\* a step that takes the line at the head of the port's input
LineTaken == port_in # <<>> /\ port_in' = Tail(port_in)

\* C1: the enqueued lines the sender has written are, in order, the first lines
\* passed to add_command: none reordered, repeated or skipped.
C1_WireOrderIsEnqueueOrder == IsPrefix(sent, enq)

C1_Witness == Len(sent) = 2 /\ sent[1] # sent[2]

\* C2: an enqueued line is written only when the sender has polled the planner
\* buffer for it and the last occupancy it observed is at most the line's nice size.
C2_WrittenOnlyBelowNiceSize ==
    (wpc = "send" /\ tx["worker"].phase = "read")
        => /\ polls_for_cmd > 0
           /\ planning_buffer_occupancy <= buffer_nice_size_for_command(command)

\* C3: while a command() or query() has written and not ended, only its own thread
\* takes lines from the port.
C3_NoForeignPortAccess ==
    [][(Outstanding # "none" /\ LineTaken) => tx'[Outstanding] # tx[Outstanding]]_vars

\* C4: every 'ok' is read by the call whose write it answers, and a command() that
\* ends normally has just read an 'ok'.
C4_OkGoesToItsOwnCall ==
    [][/\ (LineTaken /\ Strip(Head(port_in).line) = S_OK)
            => /\ Outstanding # "none"
               /\ tx'[Outstanding] # tx[Outstanding]
               /\ tx[Outstanding].id = Head(port_in).for
       /\ \A t \in Threads :
            (/\ tx[t].kind = "command" /\ tx[t].phase = "read" /\ tx'[t].phase # "read"
             /\ proc' = "alive" /\ (t = "worker" => wpc' # "dead"))
                => (port_in # <<>> /\ Strip(Head(port_in).line) = S_OK)]_vars

\* C5 as stated: when wait_for_empty_queue returns, the sender has made exactly as
\* many command() calls as lines were enqueued.
C5_ExactlyNCommandCalls == (JoinReturns /\ wpc # "none") => Len(worker_cmds) = Len(enq)

\* C5, amended: when wait_for_empty_queue returns, the sender has called command()
\* once for each enqueued line, in order, and at most once more, for the '$10='
\* line of its prelude, which it sends exactly when the controller's initial $10
\* has bit 2 clear.
C5_NCallsPlusPrelude ==
    JoinReturns
        => /\ GcodeCalls = enq
           /\ Len(PreludeCalls) <= 1
           /\ Len(PreludeCalls) = 1 => Bit2(init_mask) = 0
           /\ (Len(enq) > 0 /\ Bit2(init_mask) = 0) => Len(PreludeCalls) = 1

C5_Witness == JoinReturns /\ Len(enq) = 2 /\ Len(worker_cmds) = 3

\* C6: no call makes more than timeout * 5 reads, and a call that has read no 'ok'
\* fails: it does not return a value to its caller.
C6_NoOkMeansFailure ==
    /\ \A t \in Threads : tx[t].reads < ReadBudget
    /\ main_ret.outcome \in {"unset", "ok", "exit"}

\* C7: when the sender thread has ended on a failure, the flag its callers can read
\* says so, the thread holds no call and the process is alive.
C7_FailureIsRecorded ==
    wpc = "dead" => (~running /\ tx["worker"].phase = "none" /\ proc = "alive")

(***************************************************************************)
(* Properties of the estimator.                                            *)
(***************************************************************************)
\* the targets of the motion lines k, k+1, ... of a text, reached from pos
RECURSIVE TargetsFrom(_, _, _)
TargetsFrom(ls, k, pos) ==
    IF k > Len(ls) THEN {}
    ELSE LET line == Upper(Strip(ls[k]))
         IN  IF ~IsComment(line) /\ is_motion_command(line)
             THEN {parse_coord(line, pos, 0).pos}
                      \cup TargetsFrom(ls, k + 1, parse_coord(line, pos, 0).pos)
             ELSE TargetsFrom(ls, k + 1, pos)

MotionTargets == TargetsFrom(GcodeLines, 1, Point(0, 0))

\* C8: when estimate_time returns, every target of a motion line of the text lies
\* inside the returned bounds and each of the four bounds is the coordinate of
\* some target (so the start (0,0) extends them only if it is a target); without
\* any motion line the bounds are the empty ones
C8_BoundsAreTargetExtremes ==
    est_pc = "returned" =>
        IF MotionTargets = {} THEN bounds = Bounds
        ELSE /\ \A t \in MotionTargets :
                   /\ bounds.min_x <= t.x /\ t.x <= bounds.max_x
                   /\ bounds.min_y <= t.y /\ t.y <= bounds.max_y
             /\ \E t \in MotionTargets : t.x = bounds.min_x
             /\ \E t \in MotionTargets : t.x = bounds.max_x
             /\ \E t \in MotionTargets : t.y = bounds.min_y
             /\ \E t \in MotionTargets : t.y = bounds.max_y

\* estimate_time has returned for a text with several targets, none at the start
\* position's x
C8_Witness ==
    /\ est_pc = "returned"
    /\ Cardinality(MotionTargets) >= 2
    /\ bounds.min_x > 0
    /\ bounds.max_y > bounds.min_y

\* the text 'G0 X100 Y0'
RapidAlone == G_RAPID

\* C9 as stated: for the single rapid 'G0 X100 Y0' from (0,0) the returned bounds
\* are (0, 100, 0, 0), width 100 and height 0
C9_RapidBoundsIncludeStart ==
    (gcode = RapidAlone /\ est_pc = "returned") =>
        /\ bounds = [min_x |-> 0, max_x |-> 10000, min_y |-> 0, max_y |-> 0]
        /\ width(bounds) = 10000
        /\ height(bounds) = 0

\* C9, amended: for the single rapid 'G0 X100 Y0' from (0,0) the returned bounds
\* are those of its target alone, (100, 100, 0, 0): width 0 and height 0
C9_RapidBoundsAreTheTarget ==
    (gcode = RapidAlone /\ est_pc = "returned") =>
        /\ bounds = [min_x |-> 10000, max_x |-> 10000, min_y |-> 0, max_y |-> 0]
        /\ width(bounds) = 0
        /\ height(bounds) = 0

C9_Witness == gcode = RapidAlone /\ est_pc = "returned" /\ position = Point(10000, 0)

\* the text 'G1 X10 F1200' then 'G1 X20 F1200', and the time of one such segment
\* (10 mm at F1200) from rest to rest
CollinearPair == Join(<<G_X10, G_X20>>, NL)

IsolatedSegmentTime ==
    calculate_motion_time(100000, 0, 0, 1200000, max_accel_along_motion(Point(1000, 0))).t

\* C10: for the collinear pair 'G1 X10 F1200', 'G1 X20 F1200' estimate_time
\* completes, and its total time is below twice the time of one segment alone
C10_CollinearPairCompletes ==
    (gcode = CollinearPair /\ est_pc # "loop") =>
        /\ est_pc = "returned"
        /\ total_time < 2 * IsolatedSegmentTime

\* the text 'G1 X10 F1200' then 'G1 X0 F1200'
ReversalPair == Join(<<G_X10, G_X0>>, NL)

\* sqrt(min(max_accel_x, max_accel_y) * junction_deviation), the value of
\* calculate_junction_vmax at an angle of pi, in thousandths: 2.828
ReversalJunctionVmax ==
    ISqrt(min(max_accel_x, max_accel_y) * junction_deviation * 10000)

TimeAtCap == MulDiv(motion_args.distance, 600000, motion_args.max_velocity)

TimeToChangeSpeed ==
    (abs(motion_args.end_velocity - motion_args.start_velocity) * 50)
        \div (3 * motion_args.max_accel)

\* C12: whenever _calculate_motion_time returns for v1 <= v_cap, a > 0 and
\* L >= 0, the returned time is at least L / v_cap and at least |v1 - v0| / a
\* (up to two units of rounding)
C12_TimeRespectsLimits ==
    motion_ret.raised = "none" =>
        /\ motion_ret.t + 2 >= TimeAtCap
        /\ motion_ret.t + 2 >= TimeToChangeSpeed

\* the time estimated for ReversalPair: the first segment ends at the junction
\* velocity, the second starts from it and ends at rest
ReversalPairTime ==
    calculate_motion_time(100000, 0, ReversalJunctionVmax, 1200000,
                          max_accel_along_motion(Point(1000, 0))).t
    + calculate_motion_time(100000, ReversalJunctionVmax, 0, 1200000,
                            max_accel_along_motion(Point(-1000, 0))).t

\* ReversalPair with a comment line or a blank line between its two lines
ReversalPairWithComment == Join(<<G_X10, G_COMMENT, G_X0>>, NL)

ReversalPairWithBlank == Join(<<G_X10, G_BLANK, G_X0>>, NL)

\* C13: a comment line or a blank line between two motion lines is ignored by
\* the look-ahead too: the text is estimated to the same time and the same
\* bounds as the text with that line removed
C13_CommentsInvisibleToLookAhead ==
    /\ (gcode = ReversalPair /\ est_pc = "returned") =>
            total_time = ReversalPairTime /\ bounds = update(update(Bounds, Point(1000, 0)), Point(0, 0))
    /\ (gcode \in {ReversalPairWithComment, ReversalPairWithBlank} /\ est_pc \notin {"loop", "idle"}) =>
            /\ est_pc = "returned"
            /\ total_time = ReversalPairTime
            /\ bounds = update(update(Bounds, Point(1000, 0)), Point(0, 0))

(***************************************************************************)
(* Properties of the port finder.                                          *)
(***************************************************************************)
\* the description contains 'usb' or 'arduino' in any letter case, or the
\* device path contains 'arduino' or 'ttyUSB'
MatchesCandidateRule(p) ==
    \/ Contains(Lower(p.description), S_usb)
    \/ Contains(Lower(p.description), S_arduino)
    \/ Contains(p.device, S_arduino)
    \/ Contains(p.device, S_ttyUSB)

\* C14: the candidates find_4xidraw_port keeps are exactly the listed ports
\* whose description contains 'usb' or 'arduino' in any letter case or whose
\* device path contains 'arduino' or 'ttyUSB'; a port at '/dev/ttyUSB0' is a
\* candidate whatever its description
C14_CandidatesFollowTheRule ==
    find_pc \notin {"idle", "call"} =>
        \A k \in 1..Len(comports) :
            (\E j \in 1..Len(xidraw_ports) : xidraw_ports[j] = comports[k].device)
                <=> MatchesCandidateRule(comports[k])

\* the summary the exhausted probe should print: 'invalid response' for a
\* probed candidate, 'not a match' for any other port
ExpectedSummary ==
    [k \in 1..Len(comports) |->
        [device |-> comports[k].device,
         reason |-> IF is_compatible_device(comports[k]) THEN S_invalid_response
                    ELSE S_not_a_match]]

\* C15: a candidate without banner, or whose opening or reading raises an OS
\* or serial error, is closed and the probe moves on; find_4xidraw_port never
\* raises, and when every candidate is rejected it returns None with every
\* port closed, after listing each port with 'invalid response' for a probed
\* candidate and 'not a match' for a non-candidate
C15_RejectedCandidatesClosedAndListed ==
    /\ find_pc # "raised"
    /\ (find_pc = "returned" /\ find_ret = "None") =>
            open_ports = {} /\ printed = ExpectedSummary

\* the feed programmed by the most recent F word among the first k lines, 0
\* when there is none
RECURSIVE ProgrammedFeed(_)
ProgrammedFeed(k) ==
    IF k = 0 THEN 0
    ELSE IF Word(Upper(Strip(GcodeLines[k])), "F").found
         THEN Float(Word(Upper(Strip(GcodeLines[k])), "F").text).v
         ELSE ProgrammedFeed(k - 1)

\* the step of a motion line whose feed, when the line has no F word, is feed
MotionWithFeed(feed) ==
    /\ InLoop
    /\ ~IsComment(CurLine)
    /\ is_motion_command(CurLine)
    /\ \E target \in {parse_coord(CurLine, position, feed)} :
       \E nxt \in {LookAhead(NextLine, target)} :
       \E o \in MotionOutcomes(CurLine, position, velocity, target, nxt) :
          /\ bounds' = IF o.updated THEN update(bounds, o.target_pos) ELSE bounds
          /\ IF o.raised # "none"
             THEN /\ est_pc' = o.raised
                  /\ UNCHANGED <<line_index, position, velocity, total_time>>
             ELSE /\ velocity' = o.real_end_velocity
                  /\ position' = o.target_pos
                  /\ total_time' = total_time + o.motion_time
                  /\ line_index' = line_index + 1
                  /\ est_pc' = est_pc
    /\ UNCHANGED gcode

\* C16: a motion line is estimated with the feed of the most recent earlier F
\* word when it has none itself, whatever velocity the previous segment ended
\* with (a rapid with the per-axis maxima), and an axis without a word keeps
\* its coordinate
C16_FeedIsTheProgrammedFeed ==
    [][(InLoop /\ ~IsComment(CurLine) /\ is_motion_command(CurLine))
            => MotionWithFeed(ProgrammedFeed(line_index))]_vars

(***************************************************************************)
(* Properties of the gate of the sender.                                   *)
(***************************************************************************)
\* the number of lines the sender has dequeued
Dequeued == Len(enq) - Len(command_queue)

\* a poll of the sender ends with an occupancy read from the answer
PollObserves == wpc = "poll" /\ wpc' \notin {"poll", "dead"}

\* the line is issued on the poll that observes at most its nice size, and not
\* on a poll that observes more
IssuedWhenObservedNice ==
    PollObserves =>
        IF planning_buffer_occupancy' <= buffer_nice_size_for_command(command)
        THEN /\ wpc' = "send"
             /\ tx'["worker"] = Call("command", command)
        ELSE /\ wpc' = "gate"
             /\ tx'["worker"] = NoTx
             /\ sent' = sent

\* the controller reports 18, 10, 3 and 1 to the first four polls
Reports18_10_3_1 == SubSeq(occupancies, 1, 4) = <<18, 10, 3, 1>>

\* 'M3 S90' enqueued first is written after exactly the fourth poll
M3AfterFourthPoll ==
    (Reports18_10_3_1 /\ enq # <<>> /\ enq[1] = LineM3) =>
        /\ sent # <<>> => npolls >= 4
        /\ (wpc = "send" /\ Dequeued = 1) => npolls = 4 /\ polls_for_cmd = 4

\* 'G1 X5' enqueued after it is written after the first poll that reports at
\* most 16
G1AfterNextPoll ==
    (Reports18_10_3_1 /\ occupancies[5] <= 16 /\ enq = <<LineM3, LineG1>>) =>
        /\ Len(sent) = 2 => npolls = 5
        /\ (wpc = "send" /\ Dequeued = 2) => npolls = 5 /\ polls_for_cmd = 1

\* C17: a dequeued line is issued as soon as the observed occupancy is at or
\* below its nice size; with the occupancies 18, 10, 3, 1 an 'M3 S90' is
\* written after exactly the fourth poll, and the 'G1 X5' that follows after
\* the first poll that reports at most 16
C17_IssuedAtFirstNiceObservation ==
    /\ [][IssuedWhenObservedNice]_vars
    /\ [](M3AfterFourthPoll /\ G1AfterNextPoll)

C17_Witness ==
    /\ Reports18_10_3_1
    /\ enq = <<LineM3, LineG1>>
    /\ sent = <<LineM3, LineG1>>
    /\ npolls = 5
    /\ polls_for_cmd = 1
    /\ wpc = "loop"

(***************************************************************************)
(* Properties of stopping and waiting.                                     *)
(***************************************************************************)
\* stop_and_join has cleared running
Stopped == wpc # "none" /\ ~running

\* C18: once stop_and_join has cleared running the sender dequeues no further
\* line, so that the lines still queued at that moment are never written
C18_NoDequeueAfterStop ==
    [][Stopped => Len(command_queue') >= Len(command_queue)]_vars

\* the sender calls task_done() for its line
MarkedDone == unfinished_tasks' < unfinished_tasks

\* C19: wait_for_empty_queue returns only when every enqueued line has been
\* marked done, and a line is marked done only after the sender has written it
\* and has read the 'ok' with which the controller acknowledges it
C19_DoneOnlyAfterAcknowledged ==
    [][/\ (mpc = "wfq" /\ mpc' = "idle") => unfinished_tasks = 0
       /\ MarkedDone =>
            /\ wpc = "send"
            /\ tx["worker"].phase = "read"
            /\ sent # <<>> /\ sent[Len(sent)] = tx["worker"].cmd
            /\ port_in # <<>>
            /\ Strip(Head(port_in).line) = S_OK
            /\ Head(port_in).for = tx["worker"].id]_vars

\* the sender thread is in _ensure_buffer_report_enabled
InPrelude == wpc \in {"ensure_q", "ensure_cmd"}

\* the sender thread writes '$$'
WritesSettingsQuery ==
    /\ tx["worker"].cmd = S_SETTINGS_QUERY
    /\ tx["worker"].phase = "lock"
    /\ tx'["worker"].phase = "read"

\* C20: the sender thread started by start() runs _ensure_buffer_report_enabled
\* first and once: until its '$$' query (and the '$10=' command it may make)
\* has ended no line is dequeued or written and no status poll is made, and the
\* '$$' query is not made again
C20_PreludeFirstAndOnce ==
    /\ [](InPrelude => sent = <<>> /\ npolls = 0 /\ Dequeued = 0)
    /\ [][wpc = "none" => wpc' \in {"none", "ensure_q"}]_vars
    /\ [][wpc' = "ensure_q" => wpc \in {"none", "ensure_q"}]_vars
    /\ [][WritesSettingsQuery => wpc = "ensure_q" /\ npolls = 0 /\ sent = <<>>]_vars

C20_Witness ==
    /\ wpc = "loop"
    /\ sent # <<>>
    /\ npolls >= 1
    /\ worker_cmds # <<>>
    /\ unfinished_tasks = 0

(***************************************************************************)
(* Properties of _ensure_buffer_report_enabled.                            *)
(***************************************************************************)
\* the '$10=' command for the mask read at start with bit 2 added
MaskCommandForInitMask == S_MASK_PREFIX \o IntToStr(init_mask + 4) \o <<NL>>

\* C21: _ensure_buffer_report_enabled changes the controller's $10 only by
\* setting bit 2: for a mask read with bit 2 clear it sends '$10=<mask + 4>'
\* once, every other bit as read; for a mask with bit 2 set it sends no '$10='
\* command, and the mask stays as it was
C21_OnlyBit2IsSet ==
    /\ Bit2(init_mask) = 1 => PreludeCalls = <<>> /\ ctl_mask = init_mask
    /\ Bit2(init_mask) = 0 =>
            /\ PreludeCalls \in {<<>>, <<MaskCommandForInitMask>>}
            /\ ctl_mask \in {init_mask, init_mask + 4}
    /\ (wpc \in {"loop", "loop_q", "gate", "poll", "send", "done"} /\ Bit2(init_mask) = 0)
            => PreludeCalls = <<MaskCommandForInitMask>>

C21_Witness ==
    /\ init_mask = 3
    /\ ctl_mask = 7
    /\ PreludeCalls = <<MaskCommandForInitMask>>
    /\ wpc = "loop"

\* C22: on one candidate the soft-reset byte is written at most once, and only
\* after 15 reads in a row without a line beginning with 'Grbl '; a banner read
\* in the first window returns the link without any write; at most 30 reads are
\* made on a candidate
C22_ResetOnceAfterFirstWindow ==
    /\ nwrites <= 1
    /\ nreads <= 30
    /\ nwrites = 1 => nreads >= 15
    /\ find_pc = "window1" => nwrites = 0 /\ nreads < 15
    /\ find_pc = "reset" => nwrites = 0 /\ nreads = 15
    /\ find_pc = "window2" => nwrites = 1 /\ nreads < 30
    /\ (find_ret = "XidrawDevice" /\ nreads <= 15) => nwrites = 0

C22_Witness ==
    /\ find_ret = "XidrawDevice"
    /\ nwrites = 1
    /\ nreads = 30

(***************************************************************************)
(* Properties of the state carried from one motion line to the next.       *)
(***************************************************************************)
\* the step of a motion line that completes
MotionCompletes ==
    /\ InLoop
    /\ ~IsComment(CurLine)
    /\ is_motion_command(CurLine)
    /\ est_pc' = "loop"
    /\ line_index' = line_index + 1

\* what _calculate_motion_time returns for the current motion line (line 296),
\* for each value calculate_junction_vmax can return
SolverReports ==
    LET target == parse_coord(CurLine, position, velocity)
        nxt == LookAhead(NextLine, target)
        motion == PointSub(target.pos, position)
        target_feed == TargetFeed(CurLine, target.feed, max_speed_along_motion(motion))
    IN  {calculate_motion_time(length(motion) * 100, velocity,
                               min(target_feed, junction.v), target_feed,
                               max_accel_along_motion(motion)) :
            junction \in {j \in calculate_junction_vmax(motion,
                                                        PointSub(nxt.pos, target.pos)) :
                             j.raised = "none"}}

\* the first segment of 'G1 X1.2 Y0.5 F3000', 'G1 X6 Y2.5 F3000' is shorter than
\* the distance needed to reach its targeted end velocity from rest
ShortPair == Join(<<G_SHORT, G_ON>>, NL)

ShortSegmentIsTooShort ==
    SpeedChangeDistance(0, 5000000, max_accel_along_motion(Point(120, 50)))
        > length(Point(120, 50)) * 100

JunctionSpeeds ==
    LET target == parse_coord(CurLine, position, velocity)
        nxt == LookAhead(NextLine, target)
    IN  {j.v : j \in {o \in calculate_junction_vmax(PointSub(target.pos, position),
                                                    PointSub(nxt.pos, target.pos)) :
                         o.raised = "none"}}

\* the target feed of the current motion line (lines 285-288)
CurTargetFeed ==
    LET target == parse_coord(CurLine, position, velocity)
    IN  TargetFeed(CurLine, target.feed,
                   max_speed_along_motion(PointSub(target.pos, position)))

\* mm/s to mm/min, in thousandths; a speed above 1000 mm/s is above every feed
MmPerMin(v) == 60 * min(v, 1000000)

\* C24: the end velocity a motion line targets, which is the one carried on, is
\* the smaller of the target feed and the junction velocity converted from mm/s
\* to mm/min
C24_JunctionComparedInMmPerMin ==
    [][MotionCompletes =>
          \E v \in JunctionSpeeds : velocity' = min(CurTargetFeed, MmPerMin(v))]_vars

(***************************************************************************)
(* Properties of the lines that are not motion lines.                      *)
(***************************************************************************)
\* the step of the line `line`, which leaves the geometry alone and adds `t`
LineOnlyAdds(line, t) ==
    (InLoop /\ CurLine = line) =>
        /\ total_time' = total_time + t
        /\ line_index' = line_index + 1
        /\ est_pc' = "loop"
        /\ UNCHANGED <<bounds, position, velocity>>

\* C25: 'G4 P0.5' adds 0.5 s to the total time, 'G4 S2' adds 2 s and 'M3 S90'
\* adds nothing; none of them changes the bounds, the position or the carried
\* velocity
C25_DwellAddsItsSeconds ==
    [][/\ LineOnlyAdds(G_DWELL, 50000)
       /\ LineOnlyAdds(G_DWELL_S, 200000)
       /\ LineOnlyAdds(G_M3, 0)]_vars

DwellsAfterSegment == Join(<<G_X10, G_DWELL, G_DWELL_S>>, NL)

C25_Witness ==
    /\ gcode = DwellsAfterSegment
    /\ est_pc = "returned"
    /\ total_time = IsolatedSegmentTime + 250000
    /\ position = Point(1000, 0)
    /\ bounds = [min_x |-> 1000, max_x |-> 1000, min_y |-> 0, max_y |-> 0]

(***************************************************************************)
(* Properties of the outcome of estimate_time.                             *)
(***************************************************************************)
\* the current line is a motion line whose target is the current position
ZeroLengthMotion ==
    /\ InLoop
    /\ ~IsComment(CurLine)
    /\ is_motion_command(CurLine)
    /\ parse_coord(CurLine, position, velocity).ok
    /\ parse_coord(CurLine, position, velocity).pos = position

\* C26: a motion line whose target is the current position does not end
\* estimate_time with an exception: it adds no time and the estimate goes on
\* with the next line
C26_ZeroLengthMotionIsHarmless ==
    [][ZeroLengthMotion =>
          /\ total_time' = total_time
          /\ line_index' = line_index + 1
          /\ est_pc' = "loop"]_vars

(***************************************************************************)
(* Properties of the sender between two lines.                             *)
(***************************************************************************)
\* the sender has written a line that is not the first one and waits for its
\* acknowledgement
SecondLineWritten ==
    /\ wpc = "send"
    /\ tx["worker"].phase = "read"
    /\ Len(sent) >= 2

\* C27: between the writes of two consecutive lines the sender polls the planner
\* buffer at least once, after it has dequeued the second line, which it does
\* only after command() has returned for the first one
C27_PollBetweenConsecutiveWrites == SecondLineWritten => polls_for_cmd > 0

(***************************************************************************)
(* Progress of the dispatcher.                                             *)
(***************************************************************************)
\* the k-th enqueued line has been written and marked done
LineDone(k) == Len(sent) >= k /\ unfinished_tasks <= Len(enq) - k

\* C28: under fair scheduling, on a started dispatcher that is not stopped and
\* a controller that answers every line with 'ok' and whose occupancy falls to
\* the nice size of every line, every enqueued line is eventually written and
\* acknowledged, and a client waiting in wait_for_empty_queue eventually returns,
\* whatever polls a client makes through wait_for_empty_planner_buffer meanwhile
C28_EveryLineIsEventuallyDone ==
    /\ \A k \in 1..MaxEnq : (Len(enq) >= k /\ wpc # "none") ~> LineDone(k)
    /\ (mpc = "wfq" /\ wpc # "none") ~> (mpc = "idle")

C28_Witness ==
    /\ Len(enq) = 2
    /\ LineDone(2)
    /\ nmain = MainLimit
    /\ mpc = "wfpb_sleep"
    /\ planning_buffer_occupancy <= 1

====
